---- MODULE Spec2Model ----
(***************************************************************************)
(* Crazyflie bootloader loader (cfloader): the link transport of           *)
(* bllink.rs (request / request_match_response / send with their retry     *)
(* wrappers), the packet decoders of packets.rs and the bootloader         *)
(* operations of bootloader.rs, run one call at a time against a radio     *)
(* driver that answers every exchange with an error, a lost                *)
(* acknowledgment, or an acknowledgment carrying some payload.  The        *)
(* flashing run that drives the bootloader operations (FlashOrchestrator)  *)
(* is modelled last, over the results the operations return.               *)
(***************************************************************************)
EXTENDS Integers, Sequences, FiniteSets, TLC

(***************************************************************************)
(* Bounds of the model.  A clock tick is the unit in which the model       *)
(* observes Instant::elapsed(): the sleep of 1 ms between two exchanges    *)
(* takes one tick, an exchange with the radio takes 0..MaxDelay ticks.     *)
(* The timeout budgets of the program (10 ms, 1 s, 2 s) are scaled down to *)
(* a few ticks, in their order (short <= send <= flash).                   *)
(***************************************************************************)
ShortTicks == 1
SendTicks  == 1
FlashTicks == 2
MaxTimeout == 2         \* largest timeout_duration handed to a direct transport call
MaxDelay   == 1         \* longest time one radio exchange takes, in ticks
MaxImage   == 130       \* firmware images of every size 1..MaxImage are flashed

(***************************************************************************)
(* Program constants.                                                      *)
(***************************************************************************)
MAX_RETRIES      == 10
CMD_GET_INFO     == 16
CMD_SET_ADDRESS  == 17
CMD_GET_MAPPING  == 18
CMD_LOAD_BUFFER  == 20
CMD_READ_BUFFER  == 21
CMD_WRITE_FLASH  == 24
CMD_FLASH_STATUS == 25
CMD_READ_FLASH   == 28
CMD_RESET_INIT   == 255
CMD_RESET        == 240
CMD_ALLOFF       == 1
CMD_SYSOFF       == 2
CMD_SYSON        == 3
CMD_GETVBAT      == 4
TARGET_STM32     == 255
TARGET_NRF51     == 254
MAX_LOAD_DATA    == 25   \* the literal of load_buffer's size guard
POLL_BYTE        == 255  \* the single byte of the poll frame, vec![0xff]
WRITE_FLASH_MATCH == 3   \* match_length handed over by write_flash
INFO_MIN_LEN     == 22
READ_MIN_LEN     == 5
STATUS_MIN_LEN   == 3
VBAT_MIN_LEN     == 4    \* the literal of get_vbat's length guard

SHORT_TIMEOUT == ShortTicks     \* Duration::from_millis(10)
FLASH_TIMEOUT == FlashTicks     \* Duration::from_secs(2)
SEND_TIMEOUT  == SendTicks      \* Duration::from_millis(1000) of Bllink::send

(***************************************************************************)
(* Bytes and byte sequences.                                               *)
(***************************************************************************)
Min(a, b) == IF a < b THEN a ELSE b

\* u16::to_le_bytes
to_le_bytes(v) == << v % 256, (v \div 256) % 256 >>

\* u16::from_le_bytes([lo, hi])
from_le_bytes(lo, hi) == lo + 256 * hi

\* &s[n..] for n <= s.len(), written with the 0-based start index of the source
SliceFrom(s, n) == SubSeq(s, n + 1, Len(s))

\* &s[..n] for n <= s.len()
SliceTo(s, n) == SubSeq(s, 1, n)

\* a sequence of n bytes of data, the i-th byte being i (pattern of a firmware chunk)
Chunk(n) == [i \in 1..n |-> i]

\* n zero bytes
Zeros(n) == [i \in 1..n |-> 0]

\* faulty variant of starts_with: only the 3-byte header is compared
starts_with_mut(answer, data) ==
    Len(answer) >= Min(Len(data), 3) /\ SliceTo(answer, Min(Len(data), 3)) = SliceTo(data, Min(Len(data), 3))

\* slice::starts_with
starts_with(answer, data) ==
    Len(answer) >= Len(data) /\ SliceTo(answer, Len(data)) = data

\* faulty variant of prefix_matches: a candidate shorter than match_length is
\* compared on the bytes it has
prefix_matches_mut(answer, data, match_length) ==
    SliceTo(answer, Min(Len(answer), match_length)) = SliceTo(data, Min(Len(answer), match_length))

\* the loop condition of try_request_match_response, negated:
\* !(answer.len() < match_length || !answer[..match_length].eq(match_data))
prefix_matches(answer, data, match_length) ==
    ~(Len(answer) < match_length
        \/ SliceTo(answer, match_length) # SliceTo(data, match_length))

(***************************************************************************)
(* Results.  A Rust anyhow::Result is a record: kind "Ok" with a value,    *)
(* kind "Err" with the error (and, for the retry wrappers, the error of    *)
(* the last attempt that the message embeds as cause).  kind "Panic" is a  *)
(* panic!() or unreachable!() unwinding out of the call, kind "None" is    *)
(* "no call has returned yet".  The anyhow messages of the source are      *)
(* named after the error kinds they state.                                 *)
(***************************************************************************)
NoResult == [kind |-> "None",  err |-> "none", cause |-> "none", val |-> << >>]
Ok(v)    == [kind |-> "Ok",    err |-> "none", cause |-> "none", val |-> v]
Err(e)   == [kind |-> "Err",   err |-> e,      cause |-> "none", val |-> << >>]
Wrapped(e, c) == [kind |-> "Err", err |-> e,   cause |-> c,      val |-> << >>]
Panic    == [kind |-> "Panic", err |-> "none", cause |-> "none", val |-> << >>]

\* the `?` operator: an Err (or an unwinding panic) of the callee leaves the caller
Propagate(r) == [r EXCEPT !.val = << >>]

(***************************************************************************)
(* packets.rs                                                              *)
(***************************************************************************)
\* bytes[i] with the 0-based index of the source
At(bytes, i) == bytes[i + 1]

\* faulty variant of InfoPacket_from_bytes: the command echo at bytes[0] is not
\* skipped, every field is read one byte early
InfoPacket_from_bytes_mut(bytes) ==
    IF Len(bytes) < INFO_MIN_LEN THEN Panic
    ELSE Ok([ page_size    |-> from_le_bytes(At(bytes, 0), At(bytes, 1)),
              n_buff_page  |-> from_le_bytes(At(bytes, 2), At(bytes, 3)),
              n_flash_page |-> from_le_bytes(At(bytes, 4), At(bytes, 5)),
              flash_start  |-> from_le_bytes(At(bytes, 6), At(bytes, 7)),
              cpu_id       |-> SubSeq(bytes, 9, 20),
              version      |-> At(bytes, 20) ])

InfoPacket_from_bytes(bytes) ==
    IF Len(bytes) < INFO_MIN_LEN THEN Panic
    ELSE Ok([ page_size    |-> from_le_bytes(At(bytes, 1), At(bytes, 2)),
              n_buff_page  |-> from_le_bytes(At(bytes, 3), At(bytes, 4)),
              n_flash_page |-> from_le_bytes(At(bytes, 5), At(bytes, 6)),
              flash_start  |-> from_le_bytes(At(bytes, 7), At(bytes, 8)),
              cpu_id       |-> SubSeq(bytes, 10, 21),
              version      |-> At(bytes, 21) ])

BufferReadPacket_from_bytes(bytes) ==
    IF Len(bytes) < READ_MIN_LEN THEN Panic
    ELSE Ok([ page    |-> from_le_bytes(At(bytes, 1), At(bytes, 2)),
              address |-> from_le_bytes(At(bytes, 3), At(bytes, 4)),
              data    |-> SliceFrom(bytes, 5) ])

FlashReadPacket_from_bytes(bytes) ==
    IF Len(bytes) < READ_MIN_LEN THEN Panic
    ELSE Ok([ page    |-> from_le_bytes(At(bytes, 1), At(bytes, 2)),
              address |-> from_le_bytes(At(bytes, 3), At(bytes, 4)),
              data    |-> SliceFrom(bytes, 5) ])

FlashWriteResponse_from_bytes(bytes) ==
    IF Len(bytes) < STATUS_MIN_LEN THEN Panic
    ELSE Ok([ done |-> At(bytes, 1), error |-> At(bytes, 2) ])

\* faulty variant of FlashError_from: an unknown code is taken for a failure
FlashError_from_mut(value) ==
    CASE value = 0 -> "NoError"
      [] value = 1 -> "AddressOutOfBounds"
      [] value = 2 -> "FlashEraseFailed"
      [] value = 3 -> "FlashProgrammingFailed"
      [] OTHER     -> "FlashProgrammingFailed"

\* impl From<u8> for FlashError
FlashError_from(value) ==
    CASE value = 0 -> "NoError"
      [] value = 1 -> "AddressOutOfBounds"
      [] value = 2 -> "FlashEraseFailed"
      [] value = 3 -> "FlashProgrammingFailed"
      [] OTHER     -> "NoError"

\* faulty variant of is_done: only the value 1 counts as done
is_done_mut(resp) == resp.done = 1

is_done(resp) == resp.done # 0

is_success(resp) == is_done(resp) /\ FlashError_from(resp.error) = "NoError"

\* what the holder of a FlashWriteResponse reads from it: the two fields and
\* the values of is_done(), error() and is_success()
FlashWriteResponse_read(resp) ==
    [ done |-> resp.done, error |-> resp.error,
      is_done |-> is_done(resp),
      error_code |-> FlashError_from(resp.error),
      is_success |-> is_success(resp) ]

(***************************************************************************)
(* bootloader.rs: the command frame of every operation, and what the       *)
(* operation makes of the transport's result r (r.val is the response).    *)
(***************************************************************************)
\* vec![0xff, self.target, CMD]
Header(target, cmd) == << 255, target, cmd >>

\* &response[2..] panics when the response has fewer than 2 bytes
slice_out_of_range(response) == Len(response) < 2

get_info_command(target) == Header(target, CMD_GET_INFO)

get_info_result(r) ==
    IF r.kind # "Ok" THEN Propagate(r)
    ELSE IF slice_out_of_range(r.val) THEN Panic
    ELSE InfoPacket_from_bytes(SliceFrom(r.val, 2))

set_address_command(target, address) == Header(target, CMD_SET_ADDRESS) \o address

\* bllink.send(&command).await?; Ok(())
set_address_result(r) == IF r.kind # "Ok" THEN Propagate(r) ELSE Ok(<< >>)

get_mapping_command(target) == Header(target, CMD_GET_MAPPING)

get_mapping_result(r) ==
    IF r.kind # "Ok" THEN Propagate(r)
    ELSE IF Len(r.val) < 1 THEN Panic ELSE Ok(SliceFrom(r.val, 1))

\* faulty variant of load_buffer_too_large: off by one
load_buffer_too_large_mut(data) == Len(data) > MAX_LOAD_DATA + 1

\* the guard of load_buffer: data.len() > 25
load_buffer_too_large(data) == Len(data) > MAX_LOAD_DATA

load_buffer_command(target, page, address, data) ==
    Header(target, CMD_LOAD_BUFFER) \o to_le_bytes(page) \o to_le_bytes(address) \o data

\* bllink.send(&command).await?; Ok(())
load_buffer_result(r) == IF r.kind # "Ok" THEN Propagate(r) ELSE Ok(<< >>)

read_buffer_command(target, page, address) ==
    Header(target, CMD_READ_BUFFER) \o to_le_bytes(page) \o to_le_bytes(address)

read_buffer_result(r) ==
    IF r.kind # "Ok" THEN Propagate(r)
    ELSE IF slice_out_of_range(r.val) THEN Panic
    ELSE BufferReadPacket_from_bytes(SliceFrom(r.val, 2))

write_flash_command(target, buffer_page, flash_page, n_pages) ==
    Header(target, CMD_WRITE_FLASH) \o to_le_bytes(buffer_page)
        \o to_le_bytes(flash_page) \o to_le_bytes(n_pages)

write_flash_result(r) ==
    IF r.kind # "Ok" THEN Propagate(r)
    ELSE IF slice_out_of_range(r.val) THEN Panic
    ELSE FlashWriteResponse_from_bytes(SliceFrom(r.val, 2))

flash_status_command(target) == Header(target, CMD_FLASH_STATUS)

flash_status_result(r) ==
    IF r.kind # "Ok" THEN Propagate(r)
    ELSE IF slice_out_of_range(r.val) THEN Panic
    ELSE FlashWriteResponse_from_bytes(SliceFrom(r.val, 2))

\* faulty variant of read_flash_command: the address is left out
read_flash_command_mut(target, page, address) ==
    Header(target, CMD_READ_FLASH) \o to_le_bytes(page)

read_flash_command(target, page, address) ==
    Header(target, CMD_READ_FLASH) \o to_le_bytes(page) \o to_le_bytes(address)

read_flash_result(page, address, r) ==
    IF r.kind # "Ok" THEN Propagate(r)
    ELSE IF Len(r.val) < 2 THEN Err("ResponseTooShort")
    ELSE LET flash_packet == FlashReadPacket_from_bytes(SliceFrom(r.val, 2))
         IN  IF flash_packet.kind # "Ok" THEN flash_packet
             ELSE IF flash_packet.val.page # page \/ flash_packet.val.address # address
                  THEN Err("StalePacket")
                  ELSE flash_packet

reset_init_command(target) == Header(target, CMD_RESET_INIT)

\* bllink.send(&command).await?; Ok(())
reset_init_result(r) == IF r.kind # "Ok" THEN Propagate(r) ELSE Ok(<< >>)

reset_command(target) == Header(target, CMD_RESET)

\* faulty variant of reset_result: the Err of send is propagated
reset_result_mut(r) == IF r.kind # "Ok" THEN Propagate(r) ELSE Ok(<< >>)

\* let _ = bllink.send(&command).await; Ok(())
\* (an Err of send is dropped; a panic inside send still unwinds)
reset_result(r) == IF r.kind = "Panic" THEN Panic ELSE Ok(<< >>)

all_off_command(target) == Header(target, CMD_ALLOFF)

all_off_result(r) == IF r.kind = "Panic" THEN Panic ELSE Ok(<< >>)

sys_off_command(target) == Header(target, CMD_SYSOFF)

sys_off_result(r) == IF r.kind = "Panic" THEN Panic ELSE Ok(<< >>)

sys_on_command(target) == Header(target, CMD_SYSON)

sys_on_result(r) == IF r.kind = "Panic" THEN Panic ELSE Ok(<< >>)

get_vbat_command(target) == Header(target, CMD_GETVBAT)

get_vbat_result(r) ==
    IF r.kind # "Ok" THEN Propagate(r)
    ELSE IF Len(r.val) < VBAT_MIN_LEN THEN Err("InvalidVbatResponse")
    ELSE IF Len(r.val) < 6 THEN Panic      \* response[4], response[5] out of bounds
    ELSE Ok(SubSeq(r.val, 3, 6))           \* the 4 bytes handed to f32::from_le_bytes

(***************************************************************************)
(* State.                                                                  *)
(*   op, args          the call in progress ("none" when idle) and its     *)
(*                     arguments                                           *)
(*   call              the transport entry point it uses: "request",       *)
(*                     "match" (request_match_response), "send", "none"    *)
(*   data, match_length, timeout_duration   the transport call's arguments *)
(*   attempt           the loop variable of the retry wrapper              *)
(*   pc                "idle", "begin" (top of a try function), "ack"      *)
(*                     (first loop of try_request), "poll" (second loop),  *)
(*                     "send" (loop of try_send), "done" (call returned)   *)
(*   elapsed           start_time.elapsed() of the running attempt, in     *)
(*                     ticks, saturated at timeout_duration                *)
(*   answer, got_initial_ack   locals of try_request                       *)
(*   sent              the frames handed to the driver by the running (or  *)
(*                     the last) attempt, in order, each tagged with the   *)
(*                     loop that sent it                                   *)
(*   lastAck           << p >> when the latest acknowledged exchange of    *)
(*                     that attempt came back with payload p, << >> when   *)
(*                     none of its exchanges was acknowledged              *)
(*   frames            the set of frames handed to the driver by the call  *)
(*   failed, lastErr   how many attempts of the call have failed, and the  *)
(*                     error of the latest one                             *)
(*   result            what the transport call returned                    *)
(*   opResult          what the operation returned to its caller           *)
(*   run               the flashing run in progress (see FlashOrchestrator)  *)
(*   pair              request and request_match_response side by side     *)
(*                     (see the section of that name)                      *)
(***************************************************************************)
VARIABLES op, args, call, data, match_length, timeout_duration, attempt, pc,
          elapsed, answer, got_initial_ack, sent, lastAck, frames,
          failed, lastErr, result, opResult, run, pair

\* the link session and the call in progress on it
bllink == << op, args, call, data, match_length, timeout_duration, attempt, pc,
             elapsed, answer, got_initial_ack, sent, lastAck, frames,
             failed, lastErr, result, opResult >>

vars == << bllink, run, pair >>

\* what a running transport call leaves alone: its arguments and its caller
callArgs == << op, args, call, data, match_length, timeout_duration, run, pair >>
locals   == << elapsed, answer, got_initial_ack >>

(***************************************************************************)
(* Inputs.                                                                 *)
(***************************************************************************)
Targets   == { TARGET_STM32, TARGET_NRF51 }
Pages     == { 3, 258 }
Addresses == { 10 }
FlashPages == { 258 }
ChunkLens == { 0, 1, MAX_LOAD_DATA, MAX_LOAD_DATA + 1, MAX_LOAD_DATA + 2 }
RadioAddresses == { << 231, 231, 231, 231, 231 >> }
\* request frames of the direct transport calls
Requests  == { << >>, << 255, 254, 16 >> }
Timeouts  == 0..MaxTimeout
\* n bytes, the i-th being k * i modulo 256
Pattern(k, n) == [i \in 1..n |-> (k * i) % 256]
\* buffers handed to InfoPacket::from_bytes: the buffer of the documented
\* example, the same with another byte 0, and buffers of 21, 22, 23 and 30
\* bytes with high bytes that are not 0
InfoBuffers ==
    { << 16, 128, 0, 1, 0, 40, 0, 4, 0 >> \o Zeros(12) \o << 1 >>,
      << 0, 128, 0, 1, 0, 40, 0, 4, 0 >> \o Zeros(12) \o << 1 >> }
        \cup { Pattern(k, n) : k \in { 1, 37, 255 }, n \in { 21, 22, 23, 30 } }
\* buffers handed to FlashWriteResponse::from_bytes: the command echo, a done
\* byte and every value of the error byte; one buffer too short
StatusBuffers ==
    { << CMD_FLASH_STATUS, done, error >> : done \in { 0, 1, 255 }, error \in 0..255 }
        \cup { << CMD_FLASH_STATUS, 1 >> }
Delays    == 0..MaxDelay

NoArgs == [ target |-> 0, page |-> 0, address |-> 0, buffer_page |-> 0,
            flash_page |-> 0, n_pages |-> 0, data |-> << >> ]

(***************************************************************************)
(* The radio driver.  One exchange ends in an error of the driver, in a    *)
(* lost acknowledgment, or in an acknowledgment with a payload.            *)
(***************************************************************************)
Prefixes(d) == { SliceTo(d, k) : k \in 0..Len(d) }

\* d with its k-th byte changed
OffAt(d, k) == [d EXCEPT ![k] = (d[k] + 1) % 256]

OneByteOff(d) == { OffAt(d, k) : k \in 1..Len(d) }

InfoBody == << 128, 0, 1, 0, 40, 0, 4, 0 >> \o Zeros(12) \o << 1 >>

StatusBodies == { << 1 >>, << 1, 0 >>, << 0, 0 >>, << 1, 2 >>, << 1, 9 >> }

Payloads(o) ==
    CASE o = "get_info"     -> { InfoBody, SliceTo(InfoBody, 20) }
      [] o = "get_mapping"  -> { << 4, 16 >> }
      [] o = "read_buffer"  -> { Chunk(2) }
      [] o = "read_flash"   -> { Chunk(2) }
      [] o = "write_flash"  -> StatusBodies
      [] o = "flash_status" -> StatusBodies
      [] o = "get_vbat"     -> { << 1 >>, << 1, 2 >>, << 1, 2, 3 >>, << 1, 2, 3, 4 >> }
      [] OTHER              -> { << 7 >> }

\* replies to an earlier read of another page, or of another address
Stale(o, a) ==
    IF o \in { "read_flash", "read_buffer" }
    THEN LET cmd == IF o = "read_flash" THEN CMD_READ_FLASH ELSE CMD_READ_BUFFER
         IN  { Header(a.target, cmd) \o to_le_bytes(a.page - 1) \o to_le_bytes(a.address) \o Chunk(2),
               Header(a.target, cmd) \o to_le_bytes(a.page) \o to_le_bytes(a.address + 1) \o Chunk(2) }
    ELSE { }

\* what the target echoes: the request, or its first match_length bytes
Echo(c, d, n) == IF c = "match" THEN SliceTo(d, Min(n, Len(d))) ELSE d

DirectCalls == { "request", "request_match_response", "send_with_timeout" }

\* For a direct transport call: every prefix of the request, the request with any
\* one byte changed, and the request followed by a payload.  For an operation: no
\* payload at all, the command frame cut by one byte, the frame with another
\* target, another command or another last byte, replies to earlier reads, and
\* the echo followed by each payload of the operation (the empty one included).
Replies(o, a, c, d, n) ==
    IF o \in DirectCalls
    THEN Prefixes(d) \cup OneByteOff(d) \cup { d \o << 7 >> }
    ELSE { << >>, SliceTo(d, Len(d) - 1), OffAt(d, 2), OffAt(d, 3), OffAt(d, Len(d)) }
            \cup Stale(o, a)
            \cup { Echo(c, d, n) \o p : p \in Payloads(o) \cup { << >> } }

\* Instant::elapsed() after d more ticks
Later(d) == Min(timeout_duration, elapsed + d)

Request(frame) == [kind |-> "request", frame |-> frame]

\* faulty variant of Poll: the second loop hands the request to the driver again
Poll_mut == Request(data)

\* what the second loop hands to the driver: vec![0xff]
Poll == [kind |-> "poll", frame |-> << POLL_BYTE >>]

(***************************************************************************)
(* bllink.rs: the retry wrappers.                                          *)
(***************************************************************************)
\* faulty variant of request_exhausted: gives up one attempt early
request_exhausted_mut(a) == a = MAX_RETRIES - 2

\* `if attempt == MAX_RETRIES - 1` of request
request_exhausted(a) == a = MAX_RETRIES - 1

\* faulty variant of request_match_response_exhausted: the last attempt is
\* taken to be the one numbered MAX_RETRIES
request_match_response_exhausted_mut(a) == a = MAX_RETRIES

\* `if attempt == MAX_RETRIES - 1` of request_match_response
request_match_response_exhausted(a) == a = MAX_RETRIES - 1

\* `if attempt == MAX_RETRIES - 1` of send_with_timeout
send_with_timeout_exhausted(a) == a = MAX_RETRIES - 1

exhausted(c, a) ==
    CASE c = "request" -> request_exhausted(a)
      [] c = "match"   -> request_match_response_exhausted(a)
      [] OTHER         -> send_with_timeout_exhausted(a)

\* faulty variant of invalid_match_length: off by one
invalid_match_length_mut(d, n) == n > Len(d) + 1

\* the validation of try_request_match_response
invalid_match_length(d, n) == n > Len(d)

\* the condition under which the polling loop goes on, negated
accepted(c, a, d, n) ==
    IF c = "match" THEN prefix_matches(a, d, n) ELSE starts_with(a, d)

\* what the operation in progress returns, given what the transport returned
operation_result(o, a, r) ==
    CASE o = "get_info"     -> get_info_result(r)
      [] o = "set_address"  -> set_address_result(r)
      [] o = "get_mapping"  -> get_mapping_result(r)
      [] o = "load_buffer"  -> load_buffer_result(r)
      [] o = "read_buffer"  -> read_buffer_result(r)
      [] o = "write_flash"  -> write_flash_result(r)
      [] o = "flash_status" -> flash_status_result(r)
      [] o = "read_flash"   -> read_flash_result(a.page, a.address, r)
      [] o = "reset_init"   -> reset_init_result(r)
      [] o = "reset"        -> reset_result(r)
      [] o = "all_off"      -> all_off_result(r)
      [] o = "sys_off"      -> sys_off_result(r)
      [] o = "sys_on"       -> sys_on_result(r)
      [] o = "get_vbat"     -> get_vbat_result(r)
      [] OTHER              -> r      \* a direct call of the transport

\* the transport call returns r, and with it the operation
Return(r) ==
    /\ result' = r
    /\ opResult' = operation_result(op, args, r)
    /\ pc' = "done"

\* the Err(e) arm of the wrapper's match: the attempt failed with e
FailAttempt(e) ==
    /\ failed' = failed + 1
    /\ lastErr' = e
    /\ IF exhausted(call, attempt)
       THEN /\ Return(Wrapped("RetriesExhausted", e))
            /\ attempt' = attempt
       ELSE IF attempt + 1 < MAX_RETRIES
       THEN /\ attempt' = attempt + 1
            /\ pc' = "begin"
            /\ UNCHANGED << result, opResult >>
       ELSE /\ Return(Panic)           \* unreachable!() after the loop
            /\ attempt' = attempt + 1

NoFailure == UNCHANGED << attempt, failed, lastErr >>

(***************************************************************************)
(* bllink.rs: one attempt.                                                 *)
(***************************************************************************)
\* top of try_request / try_request_match_response / try_send
TryBegin ==
    /\ pc = "begin"
    /\ ~(call = "match" /\ invalid_match_length(data, match_length))
    /\ elapsed' = 0
    /\ answer' = << >>
    /\ got_initial_ack' = FALSE
    /\ sent' = << >>
    /\ lastAck' = << >>
    /\ pc' = IF call = "send" THEN "send" ELSE "ack"
    /\ NoFailure
    /\ UNCHANGED << callArgs, frames, result, opResult >>

\* try_request_match_response: match_length > data.len()
TryInvalidArgument ==
    /\ pc = "begin"
    /\ call = "match" /\ invalid_match_length(data, match_length)
    /\ elapsed' = 0
    /\ answer' = << >>
    /\ got_initial_ack' = FALSE
    /\ sent' = << >>
    /\ lastAck' = << >>
    /\ FailAttempt("InvalidArgument")
    /\ UNCHANGED << callArgs, frames >>

\* faulty variant of AckLoop: the loop gives up one tick before the budget
AckLoop_mut == pc = "ack" /\ elapsed + 1 < timeout_duration /\ ~got_initial_ack

\* first loop of try_request and try_request_match_response: while it runs, the
\* request is handed to the driver
AckLoop == pc = "ack" /\ elapsed < timeout_duration /\ ~got_initial_ack

AckRadioError ==
    /\ AckLoop
    /\ sent' = Append(sent, Request(data))
    /\ UNCHANGED lastAck
    /\ frames' = frames \cup { data }
    /\ FailAttempt("RadioError")
    /\ UNCHANGED << callArgs, locals >>

AckReceived ==
    /\ AckLoop
    /\ \E p \in Replies(op, args, call, data, match_length), d \in Delays :
          /\ answer' = p
          /\ lastAck' = << p >>
          /\ elapsed' = Later(d)
    /\ got_initial_ack' = TRUE
    /\ sent' = Append(sent, Request(data))
    /\ frames' = frames \cup { data }
    /\ pc' = "poll"
    /\ NoFailure
    /\ UNCHANGED << callArgs, result, opResult >>

AckLost ==
    /\ AckLoop
    /\ \E d \in Delays : elapsed' = Later(d + 1)    \* the exchange, then sleep(1 ms)
    /\ sent' = Append(sent, Request(data))
    /\ UNCHANGED lastAck
    /\ frames' = frames \cup { data }
    /\ NoFailure
    /\ UNCHANGED << callArgs, pc, answer, got_initial_ack, result, opResult >>

\* `if !got_initial_ack` after the first loop
AckTimeout ==
    /\ pc = "ack" /\ ~AckLoop
    /\ ~got_initial_ack
    /\ FailAttempt("NoAckTimeout")
    /\ UNCHANGED << callArgs, locals, sent, lastAck, frames >>

\* faulty variant of PollLoop: the loop does not look at the clock
PollLoop_mut ==
    /\ pc = "poll"
    /\ ~accepted(call, answer, data, match_length)

\* second loop of try_request and try_request_match_response: while it runs, a
\* poll frame is handed to the driver
PollLoop ==
    /\ pc = "poll"
    /\ elapsed < timeout_duration
    /\ ~accepted(call, answer, data, match_length)

PollRadioError ==
    /\ PollLoop
    /\ sent' = Append(sent, Poll)
    /\ UNCHANGED lastAck
    /\ frames' = frames \cup { Poll.frame }
    /\ FailAttempt("RadioError")
    /\ UNCHANGED << callArgs, locals >>

\* faulty variant of PollReceived: the payload is appended to the candidate
PollReceived_mut ==
    /\ PollLoop
    /\ \E p \in Replies(op, args, call, data, match_length), d \in Delays :
          /\ answer' = answer \o p
          /\ lastAck' = << p >>
          /\ elapsed' = Later(d + 1)
    /\ sent' = Append(sent, Poll)
    /\ frames' = frames \cup { Poll.frame }
    /\ NoFailure
    /\ UNCHANGED << callArgs, pc, got_initial_ack, result, opResult >>

\* new_ack.received: answer = new_answer, then sleep(1 ms)
PollReceived ==
    /\ PollLoop
    /\ \E p \in Replies(op, args, call, data, match_length), d \in Delays :
          /\ answer' = p
          /\ lastAck' = << p >>
          /\ elapsed' = Later(d + 1)
    /\ sent' = Append(sent, Poll)
    /\ frames' = frames \cup { Poll.frame }
    /\ NoFailure
    /\ UNCHANGED << callArgs, pc, got_initial_ack, result, opResult >>

PollLost ==
    /\ PollLoop
    /\ \E d \in Delays : elapsed' = Later(d + 1)
    /\ sent' = Append(sent, Poll)
    /\ UNCHANGED lastAck
    /\ frames' = frames \cup { Poll.frame }
    /\ NoFailure
    /\ UNCHANGED << callArgs, pc, answer, got_initial_ack, result, opResult >>

\* after the second loop: the candidate does not match
PollTimeout ==
    /\ pc = "poll" /\ ~PollLoop
    /\ ~accepted(call, answer, data, match_length)
    /\ FailAttempt("ResponseTimeout")
    /\ UNCHANGED << callArgs, locals, sent, lastAck, frames >>

\* after the second loop: Ok(answer)
PollMatched ==
    /\ pc = "poll" /\ ~PollLoop
    /\ accepted(call, answer, data, match_length)
    /\ Return(Ok(answer))
    /\ NoFailure
    /\ UNCHANGED << callArgs, locals, sent, lastAck, frames >>

\* faulty variant of SendLoop: the loop gives up one tick before the budget
SendLoop_mut == pc = "send" /\ elapsed + 1 < timeout_duration

\* loop of try_send
SendLoop == pc = "send" /\ elapsed < timeout_duration

SendRadioError ==
    /\ SendLoop
    /\ sent' = Append(sent, Request(data))
    /\ UNCHANGED lastAck
    /\ frames' = frames \cup { data }
    /\ FailAttempt("RadioError")
    /\ UNCHANGED << callArgs, locals >>

\* ack.received: return Ok(()), the payload is dropped
SendReceived ==
    /\ SendLoop
    /\ \E p \in Replies(op, args, call, data, match_length) : lastAck' = << p >>
    /\ sent' = Append(sent, Request(data))
    /\ frames' = frames \cup { data }
    /\ Return(Ok(<< >>))
    /\ NoFailure
    /\ UNCHANGED << callArgs, locals >>

SendLost ==
    /\ SendLoop
    /\ \E d \in Delays : elapsed' = Later(d + 1)
    /\ sent' = Append(sent, Request(data))
    /\ UNCHANGED lastAck
    /\ frames' = frames \cup { data }
    /\ NoFailure
    /\ UNCHANGED << callArgs, pc, answer, got_initial_ack, result, opResult >>

SendTimeout ==
    /\ pc = "send" /\ ~SendLoop
    /\ FailAttempt("NoAckTimeout")
    /\ UNCHANGED << callArgs, locals, sent, lastAck, frames >>

(***************************************************************************)
(* The operations.  Each hands its command frame to one transport entry    *)
(* point; the operation returns when the transport does (Return).          *)
(***************************************************************************)
\* the operation o(a) enters transport call c(frame, n, t)
Begin(o, a, c, frame, n, t) ==
    /\ pc = "idle"
    /\ op' = o
    /\ args' = a
    /\ call' = c
    /\ data' = frame
    /\ match_length' = n
    /\ timeout_duration' = t
    /\ attempt' = 0
    /\ pc' = "begin"
    /\ UNCHANGED << locals, sent, lastAck, frames, failed, lastErr, result, opResult, run, pair >>

\* a call that does not touch the link: o(a) returns r
Local(o, a, r) ==
    /\ pc = "idle"
    /\ op' = o
    /\ args' = a
    /\ pc' = "done"
    /\ opResult' = r
    /\ UNCHANGED << call, data, match_length, timeout_duration, attempt,
                    locals, sent, lastAck, frames, failed, lastErr, result, run, pair >>

\* InfoPacket::from_bytes, called on a buffer
call_InfoPacket_from_bytes ==
    \E bytes \in InfoBuffers :
        Local("InfoPacket::from_bytes", [NoArgs EXCEPT !.data = bytes],
              InfoPacket_from_bytes(bytes))

\* FlashWriteResponse::from_bytes, called on a buffer, and the response read
call_FlashWriteResponse_from_bytes ==
    \E bytes \in StatusBuffers :
        LET resp == FlashWriteResponse_from_bytes(bytes)
        IN  Local("FlashWriteResponse::from_bytes", [NoArgs EXCEPT !.data = bytes],
                  IF resp.kind # "Ok" THEN resp
                  ELSE Ok(FlashWriteResponse_read(resp.val)))

\* Bllink::request, called directly
request ==
    \E d \in Requests, t \in Timeouts :
        Begin("request", NoArgs, "request", d, 0, t)

\* Bllink::request_match_response, called directly
request_match_response ==
    \E d \in Requests, t \in Timeouts : \E n \in 0..(Len(d) + 1) :
        Begin("request_match_response", NoArgs, "match", d, n, t)

\* Bllink::send_with_timeout, called directly
send_with_timeout ==
    \E d \in Requests, t \in Timeouts :
        Begin("send_with_timeout", NoArgs, "send", d, 0, t)

\* Bllink::send
send(o, a, frame) == Begin(o, a, "send", frame, 0, SEND_TIMEOUT)

get_info ==
    \E tg \in Targets :
        Begin("get_info", [NoArgs EXCEPT !.target = tg], "request",
              get_info_command(tg), 0, SHORT_TIMEOUT)

set_address ==
    \E tg \in Targets, ad \in RadioAddresses :
        send("set_address", [NoArgs EXCEPT !.target = tg, !.data = ad],
             set_address_command(tg, ad))

get_mapping ==
    \E tg \in Targets :
        Begin("get_mapping", [NoArgs EXCEPT !.target = tg], "request",
              get_mapping_command(tg), 0, SHORT_TIMEOUT)

load_buffer ==
    \E tg \in Targets, pg \in Pages, ad \in Addresses, n \in ChunkLens :
        LET a == [NoArgs EXCEPT !.target = tg, !.page = pg, !.address = ad,
                                !.data = Chunk(n)]
        IN  IF load_buffer_too_large(a.data)
            THEN /\ pc = "idle"
                 /\ op' = "load_buffer"
                 /\ args' = a
                 /\ pc' = "done"
                 /\ opResult' = Err("PayloadTooLarge")
                 /\ UNCHANGED << call, data, match_length, timeout_duration, attempt,
                                 locals, sent, lastAck, frames, failed, lastErr, result,
                                 run, pair >>
            ELSE send("load_buffer", a, load_buffer_command(tg, pg, ad, a.data))

read_buffer ==
    \E tg \in Targets, pg \in Pages, ad \in Addresses :
        Begin("read_buffer", [NoArgs EXCEPT !.target = tg, !.page = pg, !.address = ad],
              "request", read_buffer_command(tg, pg, ad), 0, SHORT_TIMEOUT)

write_flash ==
    \E tg \in Targets, bp \in { 0 }, fp \in FlashPages, np \in { 1 } :
        Begin("write_flash",
              [NoArgs EXCEPT !.target = tg, !.buffer_page = bp, !.flash_page = fp,
                             !.n_pages = np],
              "match", write_flash_command(tg, bp, fp, np), WRITE_FLASH_MATCH,
              FLASH_TIMEOUT)

flash_status ==
    \E tg \in Targets :
        Begin("flash_status", [NoArgs EXCEPT !.target = tg], "request",
              flash_status_command(tg), 0, SHORT_TIMEOUT)

read_flash ==
    \E tg \in Targets, pg \in Pages, ad \in Addresses :
        Begin("read_flash", [NoArgs EXCEPT !.target = tg, !.page = pg, !.address = ad],
              "request", read_flash_command(tg, pg, ad), 0, SHORT_TIMEOUT)

reset_init ==
    \E tg \in Targets :
        send("reset_init", [NoArgs EXCEPT !.target = tg], reset_init_command(tg))

reset ==
    \E tg \in Targets :
        send("reset", [NoArgs EXCEPT !.target = tg], reset_command(tg))

all_off ==
    \E tg \in Targets :
        send("all_off", [NoArgs EXCEPT !.target = tg], all_off_command(tg))

sys_off ==
    \E tg \in Targets :
        send("sys_off", [NoArgs EXCEPT !.target = tg], sys_off_command(tg))

sys_on ==
    \E tg \in Targets :
        send("sys_on", [NoArgs EXCEPT !.target = tg], sys_on_command(tg))

get_vbat ==
    \E tg \in Targets :
        Begin("get_vbat", [NoArgs EXCEPT !.target = tg], "request",
              get_vbat_command(tg), 0, SHORT_TIMEOUT)

(***************************************************************************)
(* FlashOrchestrator (CFLoader::flash_stm32_with_progress and              *)
(* flash_nrf51_with_progress, module cfloader of lib.rs): the state of a   *)
(* flashing run, after section 4.4 of the design document.                 *)
(*   pc           "idle", "load" (loading chunks into the buffer pages),   *)
(*                "commit" (about to issue write_flash), "status" (polling *)
(*                flash_status), "done" (the run has returned)             *)
(*   target       the bootloader flashed                                   *)
(*   total        the size of the firmware image, in bytes                 *)
(*   cursor       the write cursor: bytes of the image loaded so far       *)
(*   committed    bytes of the image committed to flash so far             *)
(*   flash_page   the flash page the next commit starts at                 *)
(*   loads        addresses and lengths of the load_buffer calls issued    *)
(*                for the page group being filled                          *)
(*   n_loads      number of load_buffer calls issued by the run            *)
(*   writes       arguments of the write_flash calls issued by the run     *)
(*   progress     cumulative bytes reported by the progress callback, one  *)
(*                entry per invocation                                     *)
(*   status       what the latest flash_status poll returned               *)
(*   result       what the run returned                                    *)
(***************************************************************************)
\* geometry reported by the target's InfoPacket
PAGE_SIZE   == 128
N_BUFF_PAGE == 4
FLASH_START == 10

NoRun ==
    [ pc |-> "idle", target |-> 0, total |-> 0, cursor |-> 0, committed |-> 0,
      flash_page |-> 0, loads |-> << >>, n_loads |-> 0, writes |-> << >>,
      progress |-> << >>, status |-> NoResult, result |-> NoResult ]

(***************************************************************************)
(* bllink.rs: request and request_match_response side by side.  The two    *)
(* calls are given the same request and budget, the match length being the *)
(* length of the request, and the driver answers the k-th exchange of one  *)
(* as it answers the k-th exchange of the other.  `pair` is a record:      *)
(*   pc                       "idle", or "run" while the two calls run     *)
(*   data, timeout_duration   the arguments of both calls                  *)
(*   request                  the call of request                          *)
(*   request_match_response   the call of request_match_response           *)
(* and a call is a record of its position (pc, attempt), the locals of its *)
(* attempt in progress (elapsed, answer, got_initial_ack), the frames that *)
(* attempt has handed to the driver (sent), the error of its latest failed *)
(* attempt (lastErr) and what it returned (result).                        *)
(***************************************************************************)
NoTrial ==
    [ pc |-> "begin", attempt |-> 0, elapsed |-> 0, answer |-> << >>,
      got_initial_ack |-> FALSE, sent |-> << >>, lastErr |-> "none",
      result |-> NoResult ]

NoPair ==
    [ pc |-> "idle", data |-> << >>, timeout_duration |-> 0,
      request |-> NoTrial, request_match_response |-> NoTrial ]

(***************************************************************************)
(* The session: no call in progress; the caller has seen the result of the *)
(* previous one and may issue the next.                                    *)
(***************************************************************************)
Init ==
    /\ op = "none"
    /\ args = NoArgs
    /\ call = "none"
    /\ data = << >>
    /\ match_length = 0
    /\ timeout_duration = 0
    /\ attempt = 0
    /\ pc = "idle"
    /\ elapsed = 0
    /\ answer = << >>
    /\ got_initial_ack = FALSE
    /\ sent = << >>
    /\ lastAck = << >>
    /\ frames = { }
    /\ failed = 0
    /\ lastErr = "none"
    /\ result = NoResult
    /\ opResult = NoResult
    /\ run = NoRun
    /\ pair = NoPair

\* the caller takes the result; the session is ready for the next call
NextCall ==
    /\ pc = "done"
    /\ op' = "none"
    /\ args' = NoArgs
    /\ call' = "none"
    /\ data' = << >>
    /\ match_length' = 0
    /\ timeout_duration' = 0
    /\ attempt' = 0
    /\ pc' = "idle"
    /\ elapsed' = 0
    /\ answer' = << >>
    /\ got_initial_ack' = FALSE
    /\ sent' = << >>
    /\ lastAck' = << >>
    /\ frames' = { }
    /\ failed' = 0
    /\ lastErr' = "none"
    /\ result' = NoResult
    /\ opResult' = NoResult
    /\ UNCHANGED << run, pair >>

Next ==
    \/ request
    \/ request_match_response
    \/ send_with_timeout
    \/ get_info
    \/ set_address
    \/ get_mapping
    \/ load_buffer
    \/ read_buffer
    \/ write_flash
    \/ flash_status
    \/ read_flash
    \/ reset_init
    \/ reset
    \/ all_off
    \/ sys_off
    \/ sys_on
    \/ get_vbat
    \/ call_InfoPacket_from_bytes
    \/ call_FlashWriteResponse_from_bytes
    \/ TryBegin
    \/ TryInvalidArgument
    \/ AckRadioError
    \/ AckReceived
    \/ AckLost
    \/ AckTimeout
    \/ PollRadioError
    \/ PollReceived
    \/ PollLost
    \/ PollTimeout
    \/ PollMatched
    \/ SendRadioError
    \/ SendReceived
    \/ SendLost
    \/ SendTimeout
    \/ NextCall

Spec == Init /\ [][Next]_vars

\* a step of the transport call in progress: the future of the call is polled,
\* the driver answers the exchange, the sleep of 1 ms returns
Attempt ==
    \/ TryBegin
    \/ TryInvalidArgument
    \/ AckRadioError
    \/ AckReceived
    \/ AckLost
    \/ AckTimeout
    \/ PollRadioError
    \/ PollReceived
    \/ PollLost
    \/ PollTimeout
    \/ PollMatched
    \/ SendRadioError
    \/ SendReceived
    \/ SendLost
    \/ SendTimeout

\* Spec, with time advancing: a call in progress is not left suspended forever.
\* Which of the driver's outcomes an exchange has is left open.
LiveSpec == Init /\ [][Next]_vars /\ WF_vars(Attempt)

(***************************************************************************)
(* FlashOrchestrator: the run, one bootloader operation per step, after    *)
(* the algorithm of section 4.4 of the design document.  The operations    *)
(* are issued one at a time and each has resolved before the next is       *)
(* issued, so a step takes the operation's result from the results the     *)
(* operation can return.  A chunk is addressed by (page, offset within the *)
(* page) and lies within its buffer page.                                  *)
(***************************************************************************)
\* sizes of the firmware images flashed
Sizes == (1..MaxImage) \cup { 4 * PAGE_SIZE, 4 * PAGE_SIZE + 1, 8 * PAGE_SIZE + 1 }

\* what a transport call returns when it has failed
LinkFailures ==
    { Wrapped("RetriesExhausted", e) : e \in { "NoAckTimeout", "ResponseTimeout", "RadioError" } }

\* what load_buffer can return to the run
load_buffer_results(chunk) ==
    IF load_buffer_too_large(chunk) THEN { Err("PayloadTooLarge") }
    ELSE { load_buffer_result(r) : r \in { Ok(<< >>) } \cup LinkFailures }

\* what write_flash can return to the run
write_flash_results(target, buffer_page, flash_page, n_pages) ==
    { write_flash_result(r) :
        r \in { Ok(SliceTo(write_flash_command(target, buffer_page, flash_page, n_pages),
                           WRITE_FLASH_MATCH) \o body) : body \in StatusBodies }
              \cup LinkFailures }

\* what flash_status can return to the run
flash_status_results(target) ==
    { flash_status_result(r) :
        r \in { Ok(flash_status_command(target) \o body) :
                    body \in StatusBodies \cup { << 1, 1 >>, << 1, 3 >>, << 255, 2 >> } }
              \cup LinkFailures }

\* bytes loaded into the buffer pages and not yet committed
buffered(r) == r.cursor - r.committed

\* faulty variant of chunk_len: a chunk runs on into the next buffer page
chunk_len_mut(r) == Min(MAX_LOAD_DATA, r.total - r.cursor)

\* the next chunk: at most 25 bytes, to the end of the buffer page, to the end
\* of the image
chunk_len(r) ==
    Min(MAX_LOAD_DATA, Min(PAGE_SIZE - (buffered(r) % PAGE_SIZE), r.total - r.cursor))

\* the buffer pages are full, or the image is loaded to its end
commit_due(r) ==
    \/ r.cursor = r.total
    \/ buffered(r) = N_BUFF_PAGE * PAGE_SIZE

\* buffer pages that hold bytes to commit
pages_to_commit(r) == (buffered(r) + PAGE_SIZE - 1) \div PAGE_SIZE

\* the run returns res
flash_abort(res) == [run EXCEPT !.pc = "done", !.result = res]

\* the flashing entry point is called with a target, the start address
\* flash_start * page_size and a firmware image
flash_with_progress ==
    /\ pc = "idle"
    /\ run.pc = "idle"
    /\ \E tg \in Targets, n \in Sizes :
          run' = [NoRun EXCEPT !.pc = "load", !.target = tg, !.total = n,
                               !.flash_page = (FLASH_START * PAGE_SIZE) \div PAGE_SIZE]
    /\ UNCHANGED << bllink, pair >>

\* step 2: the next chunk is sent with load_buffer
flash_load_buffer ==
    /\ run.pc = "load"
    /\ LET n       == chunk_len(run)
           page    == buffered(run) \div PAGE_SIZE
           address == buffered(run) % PAGE_SIZE
       IN  \E res \in load_buffer_results(Chunk(n)) :
             run' = IF res.kind # "Ok"
                    THEN [flash_abort(Propagate(res)) EXCEPT
                            !.n_loads = @ + 1,
                            !.loads = Append(@, [page |-> page, address |-> address, len |-> n])]
                    ELSE LET loaded == [run EXCEPT
                                          !.cursor = @ + n,
                                          !.n_loads = @ + 1,
                                          !.loads = Append(@, [page |-> page,
                                                               address |-> address,
                                                               len |-> n])]
                         IN  [loaded EXCEPT
                                !.pc = IF commit_due(loaded) THEN "commit" ELSE "load"]
    /\ UNCHANGED << bllink, pair >>

\* step 3: the loaded buffer pages are committed with write_flash
flash_write_flash ==
    /\ run.pc = "commit"
    /\ LET w == [buffer_page |-> 0, flash_page |-> run.flash_page,
                 n_pages |-> pages_to_commit(run)]
       IN  \E res \in write_flash_results(run.target, w.buffer_page, w.flash_page, w.n_pages) :
             run' = IF res.kind # "Ok"
                    THEN [flash_abort(Propagate(res)) EXCEPT !.writes = Append(@, w)]
                    ELSE [run EXCEPT !.writes = Append(@, w), !.pc = "status"]
    /\ UNCHANGED << bllink, pair >>

\* step 4: flash_status is polled; on done the error decides, and the progress
\* callback is invoked after the commit (step 6)
flash_flash_status ==
    /\ run.pc = "status"
    /\ \E res \in flash_status_results(run.target) :
          run' = IF res.kind # "Ok"
                 THEN [flash_abort(Propagate(res)) EXCEPT !.status = res]
                 ELSE IF ~is_done(res.val)
                 THEN [run EXCEPT !.status = res]
                 ELSE IF FlashError_from(res.val.error) # "NoError"
                 THEN [flash_abort(Wrapped("FlashCommitFailed", FlashError_from(res.val.error)))
                         EXCEPT !.status = res]
                 ELSE [run EXCEPT
                         !.status = res,
                         !.committed = run.cursor,
                         !.flash_page = @ + pages_to_commit(run),
                         !.loads = << >>,
                         !.progress = Append(@, run.cursor),
                         !.pc = IF run.cursor = run.total THEN "done" ELSE "load",
                         !.result = IF run.cursor = run.total THEN Ok(<< >>) ELSE @]
    /\ UNCHANGED << bllink, pair >>

\* the caller takes the result of the run
flash_return ==
    /\ run.pc = "done"
    /\ run' = NoRun
    /\ UNCHANGED << bllink, pair >>

NextFlash ==
    \/ flash_with_progress
    \/ flash_load_buffer
    \/ flash_write_flash
    \/ flash_flash_status
    \/ flash_return

FlashSpec == Init /\ [][NextFlash]_vars

(***************************************************************************)
(* request and request_match_response side by side: one step of each call  *)
(* as a function of its state s and of what the driver does at its next    *)
(* exchange (ev), each translated from its own function of bllink.rs.      *)
(***************************************************************************)
\* what send_packet_async can do at one exchange: fail, lose the frame or its
\* acknowledgment, or return an acknowledgment and a payload
DriverOutcomes(d) ==
    { [kind |-> "error", payload |-> << >>, delay |-> 0] }
        \cup { [kind |-> "lost", payload |-> << >>, delay |-> dl] : dl \in Delays }
        \cup { [kind |-> "ack", payload |-> p, delay |-> dl] :
                  p \in Replies("request", NoArgs, "request", d, 0), dl \in Delays }

\* the Err(e) arm of a wrapper's match; last is its `attempt == MAX_RETRIES - 1`
wrapper_err(s, e, last) ==
    IF last
    THEN [s EXCEPT !.pc = "done", !.lastErr = e,
                   !.result = Wrapped("RetriesExhausted", e)]
    ELSE IF s.attempt + 1 < MAX_RETRIES
    THEN [s EXCEPT !.pc = "begin", !.attempt = @ + 1, !.lastErr = e]
    ELSE [s EXCEPT !.pc = "done", !.attempt = @ + 1, !.lastErr = e,
                   !.result = Panic]

\* Bllink::request over try_request
request_step(s, ev, d, t) ==
    LET fail(x, e) == wrapper_err(x, e, request_exhausted(s.attempt))
        tx(frame)  == [s EXCEPT !.sent = Append(@, frame)]
    IN  CASE s.pc = "begin" ->
                [s EXCEPT !.pc = "ack", !.elapsed = 0, !.answer = << >>,
                          !.got_initial_ack = FALSE, !.sent = << >>]
          [] s.pc = "ack" ->
                IF s.elapsed < t /\ ~s.got_initial_ack
                THEN CASE ev.kind = "error" -> fail(tx(d), "RadioError")
                       [] ev.kind = "ack" ->
                             [tx(d) EXCEPT !.got_initial_ack = TRUE,
                                           !.answer = ev.payload,
                                           !.elapsed = Min(t, @ + ev.delay),
                                           !.pc = "poll"]
                       [] OTHER ->
                             [tx(d) EXCEPT !.elapsed = Min(t, @ + ev.delay + 1)]
                ELSE fail(s, "NoAckTimeout")
          [] s.pc = "poll" ->
                IF s.elapsed < t /\ ~starts_with(s.answer, d)
                THEN CASE ev.kind = "error" -> fail(tx(<< POLL_BYTE >>), "RadioError")
                       [] ev.kind = "ack" ->
                             [tx(<< POLL_BYTE >>) EXCEPT
                                 !.answer = ev.payload,
                                 !.elapsed = Min(t, @ + ev.delay + 1)]
                       [] OTHER ->
                             [tx(<< POLL_BYTE >>) EXCEPT
                                 !.elapsed = Min(t, @ + ev.delay + 1)]
                ELSE IF ~starts_with(s.answer, d)
                THEN fail(s, "ResponseTimeout")
                ELSE [s EXCEPT !.pc = "done", !.result = Ok(s.answer)]
          [] OTHER -> s

\* Bllink::request_match_response over try_request_match_response
request_match_response_step(s, ev, d, n, t) ==
    LET fail(x, e) == wrapper_err(x, e, request_match_response_exhausted(s.attempt))
        tx(frame)  == [s EXCEPT !.sent = Append(@, frame)]
    IN  CASE s.pc = "begin" ->
                IF invalid_match_length(d, n)
                THEN fail([s EXCEPT !.elapsed = 0, !.answer = << >>,
                                    !.got_initial_ack = FALSE, !.sent = << >>],
                          "InvalidArgument")
                ELSE [s EXCEPT !.pc = "ack", !.elapsed = 0, !.answer = << >>,
                               !.got_initial_ack = FALSE, !.sent = << >>]
          [] s.pc = "ack" ->
                IF s.elapsed < t /\ ~s.got_initial_ack
                THEN CASE ev.kind = "error" -> fail(tx(d), "RadioError")
                       [] ev.kind = "ack" ->
                             [tx(d) EXCEPT !.got_initial_ack = TRUE,
                                           !.answer = ev.payload,
                                           !.elapsed = Min(t, @ + ev.delay),
                                           !.pc = "poll"]
                       [] OTHER ->
                             [tx(d) EXCEPT !.elapsed = Min(t, @ + ev.delay + 1)]
                ELSE fail(s, "NoAckTimeout")
          [] s.pc = "poll" ->
                IF s.elapsed < t /\ ~prefix_matches(s.answer, d, n)
                THEN CASE ev.kind = "error" -> fail(tx(<< POLL_BYTE >>), "RadioError")
                       [] ev.kind = "ack" ->
                             [tx(<< POLL_BYTE >>) EXCEPT
                                 !.answer = ev.payload,
                                 !.elapsed = Min(t, @ + ev.delay + 1)]
                       [] OTHER ->
                             [tx(<< POLL_BYTE >>) EXCEPT
                                 !.elapsed = Min(t, @ + ev.delay + 1)]
                ELSE IF ~prefix_matches(s.answer, d, n)
                THEN fail(s, "ResponseTimeout")
                ELSE [s EXCEPT !.pc = "done", !.result = Ok(s.answer)]
          [] OTHER -> s

\* request(d, t) and request_match_response(d, length of d, t) are called
pair_call ==
    /\ pair.pc = "idle"
    /\ \E d \in Requests, t \in Timeouts :
          pair' = [NoPair EXCEPT !.pc = "run", !.data = d, !.timeout_duration = t]
    /\ UNCHANGED << bllink, run >>

\* each call makes its next step; the driver does the same for both
pair_step ==
    /\ pair.pc = "run"
    /\ pair.request.pc # "done" \/ pair.request_match_response.pc # "done"
    /\ \E ev \in DriverOutcomes(pair.data) :
          pair' = [pair EXCEPT
                      !.request = request_step(@, ev, pair.data, pair.timeout_duration),
                      !.request_match_response =
                          request_match_response_step(@, ev, pair.data, Len(pair.data),
                                                      pair.timeout_duration)]
    /\ UNCHANGED << bllink, run >>

\* both calls have returned; the caller takes the results
pair_return ==
    /\ pair.pc = "run"
    /\ pair.request.pc = "done" /\ pair.request_match_response.pc = "done"
    /\ pair' = NoPair
    /\ UNCHANGED << bllink, run >>

NextPair ==
    \/ pair_call
    \/ pair_step
    \/ pair_return

PairSpec == Init /\ [][NextPair]_vars

TypeOK ==
    /\ pc \in { "idle", "begin", "ack", "poll", "send", "done" }
    /\ pair.pc \in { "idle", "run" }
    /\ call \in { "none", "request", "match", "send" }
    /\ attempt \in 0..MAX_RETRIES
    /\ failed \in 0..MAX_RETRIES
    /\ elapsed \in 0..timeout_duration
    /\ Len(sent) <= timeout_duration + 1

(***************************************************************************)
(* Properties.  The predicates below are written out byte by byte and do   *)
(* not use the operators of the model they judge.                          *)
(***************************************************************************)
\* r has at least n bytes and its first n bytes are the first n bytes of d
AgreesOn(r, d, n) == Len(r) >= n /\ \A i \in 1..n : r[i] = d[i]

Returned == pc = "done"

\* an attempt has just failed: the retry wrapper has its error in hand, and the
\* locals of the failed attempt are still those it ended with
JustFailed ==
    /\ failed > 0
    /\ \/ pc = "begin"
       \/ pc = "done" /\ result.kind # "Ok"

HasPoll == \E i \in 1..Len(sent) : sent[i].kind = "poll"

\* C1: request and request_match_response make at most MAX_RETRIES (10)
\* attempts; the call returns success at the first attempt that succeeds, with
\* that attempt's response, every earlier attempt having failed; it returns
\* RetriesExhausted wrapping the error of the last attempt exactly when all 10
\* attempts have failed, and returns nothing else.
C1_RetryCeiling ==
    call \in { "request", "match" } =>
        /\ attempt < 10
        /\ failed <= 10
        /\ ~Returned => failed = attempt /\ failed < 10
        /\ Returned =>
              /\ result.kind \in { "Ok", "Err" }
              /\ result.kind = "Ok" =>
                    /\ failed = attempt
                    /\ failed < 10
                    /\ result.val = answer
              /\ result.kind = "Err" <=> failed = 10
              /\ result.kind = "Err" =>
                    /\ result.err = "RetriesExhausted"
                    /\ result.cause = lastErr

\* nine attempts failed, the tenth succeeded
C1_Witness ==
    /\ call \in { "request", "match" }
    /\ Returned
    /\ result.kind = "Ok"
    /\ failed = 9

\* C2: request returns success only with a response whose bytes start with the
\* complete request bytes; a candidate that does not is never returned.
C2_FullPrefixMatch ==
    (call = "request" /\ Returned /\ result.kind = "Ok") =>
        /\ AgreesOn(result.val, data, Len(data))
        /\ lastAck = << result.val >>

\* a reply that did not match came first, a poll brought the matching one
C2_Witness ==
    /\ call = "request"
    /\ Returned
    /\ result.kind = "Ok"
    /\ Len(data) > 3
    /\ HasPoll

\* C3: request_match_response with match length N <= request length returns
\* success only with a response of at least N bytes whose first N bytes are the
\* first N bytes of the request.
C3_PartialPrefixMatch ==
    (call = "match" /\ Returned /\ result.kind = "Ok") =>
        /\ match_length <= Len(data)
        /\ AgreesOn(result.val, data, match_length)

\* a proper, non-empty prefix length, matched after a poll by a response that
\* is not the whole request
C3_Witness ==
    /\ call = "match"
    /\ Returned
    /\ result.kind = "Ok"
    /\ 0 < match_length /\ match_length < Len(data)
    /\ HasPoll
    /\ ~AgreesOn(result.val, data, Len(data))

\* C4 as stated: request_match_response with N greater than the request length
\* fails with InvalidArgument, and no packet is handed to the driver.
C4_AsStated ==
    (call = "match" /\ match_length > Len(data)) =>
        /\ frames = { } /\ sent = << >>
        /\ Returned => result.kind = "Err" /\ result.err = "InvalidArgument"

\* C4: request_match_response with N greater than the request length hands no
\* packet to the driver at any point of the call; each of its 10 attempts is
\* rejected with InvalidArgument, and the call fails with RetriesExhausted
\* wrapping InvalidArgument.
C4_InvalidMatchLength ==
    (call = "match" /\ match_length > Len(data)) =>
        /\ frames = { } /\ sent = << >> /\ lastAck = << >>
        /\ pc \in { "begin", "done" }
        /\ failed > 0 => lastErr = "InvalidArgument"
        /\ Returned =>
              /\ result.kind = "Err"
              /\ result.err = "RetriesExhausted"
              /\ result.cause = "InvalidArgument"
              /\ failed = 10

C4_Witness ==
    /\ call = "match"
    /\ match_length = Len(data) + 1
    /\ Returned

\* the frame load_buffer is to transmit: [0xFF, target, 0x14, page LE16,
\* address LE16, data]
C5_Frame ==
    << 255, args.target, 20,
       args.page % 256, args.page \div 256,
       args.address % 256, args.address \div 256 >> \o args.data

\* C5: load_buffer with more than 25 bytes of data fails with PayloadTooLarge
\* and hands nothing to the driver; with 0..25 bytes every frame it hands to
\* the driver is [0xFF, target, 0x14, page LE16, address LE16, data], and it
\* does not return before it has handed that frame over.
C5_LoadBuffer ==
    op = "load_buffer" =>
        /\ Len(args.data) > 25 =>
              /\ Returned
              /\ opResult.kind = "Err" /\ opResult.err = "PayloadTooLarge"
              /\ frames = { } /\ sent = << >>
        /\ Len(args.data) <= 25 =>
              /\ frames \subseteq { C5_Frame }
              /\ \A i \in 1..Len(sent) : sent[i].frame = C5_Frame
              /\ Returned => frames = { C5_Frame }
              /\ opResult.err # "PayloadTooLarge"

\* the smallest chunk that is too large
C5_Witness ==
    /\ op = "load_buffer"
    /\ Len(args.data) = 26
    /\ args.page > 255
    /\ Returned

\* the candidate response is a well-formed reply to a read_flash of the same
\* target that decodes to another page or another address than the requested
C6_StaleCandidate ==
    /\ Len(answer) >= 7
    /\ answer[1] = 255 /\ answer[2] = args.target /\ answer[3] = 28
    /\ \/ answer[4] + 256 * answer[5] # args.page
       \/ answer[6] + 256 * answer[7] # args.address

\* C6 as stated: a read_flash call whose reply is well-formed and decodes to a
\* different page or address fails with StalePacket.
C6_AsStated ==
    (op = "read_flash" /\ Returned /\ lastAck = << answer >> /\ C6_StaleCandidate) =>
        opResult.kind = "Err" /\ opResult.err = "StalePacket"

\* C6: a read_flash call never fails with StalePacket; a well-formed reply that
\* decodes to a different page or address does not pass the transport's
\* full-prefix match, and a call that ends with such a reply as its candidate
\* fails with RetriesExhausted (wrapping ResponseTimeout, or the radio error
\* that ended the last attempt).
C6_StaleReply ==
    op = "read_flash" =>
        /\ opResult.err # "StalePacket"
        /\ (Returned /\ lastAck = << answer >> /\ C6_StaleCandidate) =>
              /\ result.kind = "Err"
              /\ result.err = "RetriesExhausted"
              /\ result.cause \in { "ResponseTimeout", "RadioError" }
              /\ opResult.kind = "Err"
              /\ opResult.err = "RetriesExhausted"
              /\ opResult.cause = result.cause

\* read_flash(page = 3, addr = 10) whose last reply decodes to page = 2, addr = 10
C6_Witness ==
    /\ op = "read_flash"
    /\ Returned
    /\ args.page = 3 /\ args.address = 10
    /\ lastAck = << answer >>
    /\ C6_StaleCandidate
    /\ answer[4] + 256 * answer[5] = 2
    /\ answer[6] + 256 * answer[7] = 10

\* the operations that decode the response, and the least number of bytes the
\* decoder of each needs after the first two bytes of the response
C7_MinLen ==
    [ get_info |-> 22, read_buffer |-> 5, read_flash |-> 5,
      write_flash |-> 3, flash_status |-> 3 ]

\* C7 as stated: an operation that decodes a transport-accepted response too
\* short for its shape returns a MalformedPacket error, and no operation
\* panics.
C7_AsStated ==
    (op \in DOMAIN C7_MinLen /\ Returned) =>
        /\ opResult.kind # "Panic"
        /\ (result.kind = "Ok" /\ Len(result.val) - 2 < C7_MinLen[op]) =>
              opResult.kind = "Err" /\ opResult.err = "MalformedPacket"

\* what C8 says of everything but the failure of an attempt: send hands only the
\* given frame to the driver, goes on only while nothing was acknowledged,
\* returns success on the first acknowledgment and drops the payload, and
\* fails only after 10 failed attempts
C8_AckPhaseOnly ==
    /\ frames \subseteq { data }
    /\ \A i \in 1..Len(sent) : sent[i].kind = "request" /\ sent[i].frame = data
    /\ pc \in { "begin", "send", "done" }
    /\ pc = "send" => lastAck = << >>
    /\ Returned =>
          /\ result.kind \in { "Ok", "Err" }
          /\ result.kind = "Ok" => lastAck # << >> /\ result.val = << >>
          /\ result.kind = "Err" => failed = 10 /\ result.err = "RetriesExhausted"
    /\ JustFailed => lastAck = << >>

\* C8 as stated: ... and every failed attempt has elapsed its timeout without
\* an acknowledgment.
C8_AsStated ==
    call = "send" =>
        /\ C8_AckPhaseOnly
        /\ JustFailed => lastErr = "NoAckTimeout" /\ elapsed >= timeout_duration

\* C8: send performs only the ack phase: it hands only the given frame to the
\* driver, returns success at the first acknowledged transmission whatever the
\* payload, and fails only after 10 attempts have each failed, either by
\* elapsing the timeout without an acknowledgment or by an error of the radio
\* driver.
C8_FireAndForget ==
    call = "send" =>
        /\ C8_AckPhaseOnly
        /\ JustFailed =>
              \/ lastErr = "NoAckTimeout" /\ elapsed >= timeout_duration
              \/ lastErr = "RadioError" /\ Len(sent) > 0

\* send has failed: ten attempts, the last one timed out after a transmission
C8_Witness ==
    /\ call = "send"
    /\ Returned
    /\ result.kind = "Err"
    /\ lastErr = "NoAckTimeout"
    /\ Len(sent) > 0

\* the attempts that have an ack phase
C9_Scope == call = "request" \/ (call = "match" /\ match_length <= Len(data))

\* what C9 says of the ack phase but for how an attempt without acknowledgment
\* ends: while nothing is acknowledged only the request frame is sent; no poll
\* frame is sent before an acknowledgment; the payload of the first
\* acknowledged transmission is the candidate; NoAckTimeout is reported only
\* once the budget has elapsed, with no poll frame sent
C9_AckPhaseCommon ==
    /\ pc = "ack" =>
          /\ ~got_initial_ack /\ lastAck = << >>
          /\ \A i \in 1..Len(sent) : sent[i].kind = "request" /\ sent[i].frame = data
    /\ HasPoll => lastAck # << >>
    /\ (pc = "poll" /\ ~HasPoll) =>
          /\ got_initial_ack
          /\ lastAck = << answer >>
          /\ sent[Len(sent)].kind = "request"
    /\ (JustFailed /\ lastErr = "NoAckTimeout") =>
          /\ elapsed >= timeout_duration
          /\ lastAck = << >>
          /\ ~HasPoll

\* C9 as stated: ... an attempt in which no transmission is acknowledged fails
\* with NoAckTimeout, the budget elapsed.
C9_AsStated ==
    C9_Scope =>
        /\ C9_AckPhaseCommon
        /\ (JustFailed /\ lastAck = << >>) =>
              lastErr = "NoAckTimeout" /\ elapsed >= timeout_duration

\* C9: in one attempt the request frame is retransmitted until the driver
\* reports an acknowledgment, reports an error, or the budget elapses; an
\* attempt without acknowledgment fails with NoAckTimeout once the budget has
\* elapsed, or at once with the driver's error, and never sends a poll frame;
\* otherwise the payload of the first acknowledged transmission is the
\* candidate response.
C9_AckPhase ==
    C9_Scope =>
        /\ C9_AckPhaseCommon
        /\ (JustFailed /\ lastAck = << >>) =>
              /\ ~HasPoll
              /\ \/ lastErr = "NoAckTimeout" /\ elapsed >= timeout_duration
                 \/ lastErr = "RadioError" /\ Len(sent) > 0

\* the request was transmitted twice, never acknowledged, the budget elapsed
C9_Witness ==
    /\ C9_Scope
    /\ JustFailed
    /\ lastErr = "NoAckTimeout"
    /\ Len(sent) >= 2

ProtocolOps ==
    { "get_info", "set_address", "get_mapping", "load_buffer", "read_buffer",
      "write_flash", "flash_status", "read_flash", "reset_init", "reset",
      "all_off", "sys_off", "sys_on", "get_vbat" }

\* the operations that drop the result of send
C10_Dropping == { "reset", "all_off", "sys_off", "sys_on" }

\* C10 as stated: every operation returns an error when the transport has
\* failed, and none reports success when no frame of it was acknowledged.
C10_AsStated ==
    (op \in ProtocolOps /\ Returned) =>
        /\ result.kind = "Err" => opResult.kind = "Err"
        /\ opResult.kind = "Ok" => lastAck # << >>

\* C10: every operation but reset, all_off, sys_off and sys_on returns the
\* transport's RetriesExhausted error when the transport has failed, and
\* reports success only if a frame of it was acknowledged; reset, all_off,
\* sys_off and sys_on drop the result of send and report success also when the
\* transport has failed.
C10_ErrorPropagation ==
    (op \in ProtocolOps /\ Returned) =>
        /\ op \notin C10_Dropping =>
              /\ result.kind = "Err" =>
                    /\ opResult.kind = "Err"
                    /\ opResult.err = "RetriesExhausted"
                    /\ opResult.cause = result.cause
              /\ opResult.kind = "Ok" => lastAck # << >>
        /\ op \in C10_Dropping =>
              /\ result.kind \in { "Ok", "Err" }
              /\ opResult.kind = "Ok"

\* set_address failed after the transport gave up
C10_Witness ==
    /\ op = "set_address"
    /\ Returned
    /\ result.kind = "Err"
    /\ opResult.kind = "Err"
    /\ failed = 10

InCall == pc \in { "begin", "ack", "poll", "send" }

\* C11: every transport call (request, request_match_response, send) returns
\* success or an error, provided time advances, whatever acknowledgments are
\* lost and whatever replies do not match: an attempt hands at most one frame
\* to the driver per tick of its budget and one more, never runs past its
\* budget, at most 10 attempts are made, and the call in progress eventually
\* returns Ok or Err.
C11_Termination ==
    /\ [](InCall =>
            /\ elapsed <= timeout_duration
            /\ Len(sent) <= timeout_duration + 1
            /\ attempt < 10)
    /\ InCall ~> (Returned /\ result.kind \in { "Ok", "Err" })

\* a direct call with the largest budget has failed: each of its 10 attempts
\* was acknowledged and then polled to the end of its budget without a
\* matching reply
C11_Witness ==
    /\ op \in DirectCalls
    /\ Returned
    /\ timeout_duration = MaxTimeout
    /\ failed = 10
    /\ lastErr = "ResponseTimeout"
    /\ Len(sent) = timeout_duration + 1
    /\ HasPoll

\* C12: InfoPacket::from_bytes on a buffer of at least 22 bytes ignores byte 0
\* and yields page_size, n_buff_page, n_flash_page and flash_start as the
\* little-endian 16-bit values at offsets 1..3, 3..5, 5..7 and 7..9, cpu_id as
\* the bytes at offsets 9..21 and version as byte 21; the buffer
\* [0x10, 0x80, 0, 1, 0, 0x28, 0, 4, 0, 12 zero bytes, 1] gives 128, 1, 40, 4, 1.
C12_DecodeInfo ==
    (op = "InfoPacket::from_bytes" /\ Returned /\ Len(args.data) >= 22) =>
        LET b == args.data
            info == opResult.val
        IN  /\ opResult.kind = "Ok"
            /\ info.page_size    = b[2] + 256 * b[3]
            /\ info.n_buff_page  = b[4] + 256 * b[5]
            /\ info.n_flash_page = b[6] + 256 * b[7]
            /\ info.flash_start  = b[8] + 256 * b[9]
            /\ Len(info.cpu_id) = 12
            /\ \A i \in 1..12 : info.cpu_id[i] = b[9 + i]
            /\ info.version      = b[22]
            /\ (\A i \in 2..22 : b[i] = << 16, 128, 0, 1, 0, 40, 0, 4, 0, 0, 0, 0, 0, 0,
                                          0, 0, 0, 0, 0, 0, 0, 1 >>[i]) =>
                  /\ info.page_size = 128
                  /\ info.n_buff_page = 1
                  /\ info.n_flash_page = 40
                  /\ info.flash_start = 4
                  /\ info.version = 1

\* a 30-byte buffer whose 16-bit fields have a high byte that is not 0 and
\* whose byte 0 is not the command echo has been decoded
C12_Witness ==
    /\ op = "InfoPacket::from_bytes"
    /\ Returned
    /\ Len(args.data) = 30
    /\ args.data[1] = 37
    /\ opResult.kind = "Ok"
    /\ opResult.val.page_size = 74 + 256 * 111

\* C13: the error byte of a flash status decodes to NoError, AddressOutOfBounds,
\* FlashEraseFailed, FlashProgrammingFailed for 0, 1, 2, 3 and to NoError for
\* every other value; a status is done when its done byte is not 0, and a
\* status that is done with an unrecognized error byte is reported as success.
C13_LenientDecode ==
    (op = "FlashWriteResponse::from_bytes" /\ Returned /\ Len(args.data) >= 3) =>
        LET done  == args.data[2]
            error == args.data[3]
            resp  == opResult.val
        IN  /\ opResult.kind = "Ok"
            /\ resp.done = done /\ resp.error = error
            /\ error = 0 => resp.error_code = "NoError"
            /\ error = 1 => resp.error_code = "AddressOutOfBounds"
            /\ error = 2 => resp.error_code = "FlashEraseFailed"
            /\ error = 3 => resp.error_code = "FlashProgrammingFailed"
            /\ error > 3 => resp.error_code = "NoError"
            /\ resp.is_done <=> done # 0
            /\ resp.is_success <=> (done # 0 /\ error \notin { 1, 2, 3 })
            /\ (done # 0 /\ error > 3) => resp.is_success

\* a status with done = 1 and the unrecognized error byte 4 has been decoded
\* and reads as a success
C13_Witness ==
    /\ op = "FlashWriteResponse::from_bytes"
    /\ Returned
    /\ args.data = << 25, 1, 4 >>
    /\ opResult.kind = "Ok"
    /\ opResult.val.is_success
    /\ opResult.val.error_code = "NoError"

\* C14 as stated: get_vbat on a transport-accepted reply of fewer than 6 bytes
\* fails with InvalidVbatResponse, and never indexes past the end of the
\* response.
C14_AsStated ==
    (op = "get_vbat" /\ Returned) =>
        /\ opResult.kind # "Panic"
        /\ (result.kind = "Ok" /\ Len(result.val) < 6) =>
              opResult.kind = "Err" /\ opResult.err = "InvalidVbatResponse"

\* the least k with k * b >= a
Ceil(a, b) == (a + b - 1) \div b

\* the run has returned success
FlashSucceeded == run.pc = "done" /\ run.result.kind = "Ok"

\* what C15 says of the commits and of the progress callback: ceil(N / 512)
\* write_flash calls whose flash_page arguments start at 10 and strictly
\* increase, and a last progress report of N bytes
C15_Commits ==
    /\ Len(run.writes) = Ceil(run.total, 4 * 128)
    /\ run.writes[1].flash_page = 10
    /\ \A i \in 1..(Len(run.writes) - 1) :
          run.writes[i].flash_page < run.writes[i + 1].flash_page
    /\ Len(run.progress) > 0
    /\ run.progress[Len(run.progress)] = run.total

C16_Reported ==
    /\ run.pc # "idle"
    /\ run.status.kind = "Ok"
    /\ run.status.val.done # 0
    /\ run.status.val.error \in { 1, 2, 3 }

C16_Code ==
    << "AddressOutOfBounds", "FlashEraseFailed", "FlashProgrammingFailed" >>

\* C16: when a flash_status poll reports done with an error code other than
\* NoError, the run has returned FlashCommitFailed(code), and no load_buffer
\* or write_flash is issued afterwards in that run.
C16_CommitFailure ==
    /\ [](C16_Reported =>
            /\ run.pc = "done"
            /\ run.result.kind = "Err"
            /\ run.result.err = "FlashCommitFailed"
            /\ run.result.cause = C16_Code[run.status.val.error])
    /\ [][C16_Reported =>
            /\ run'.n_loads <= run.n_loads
            /\ Len(run'.writes) <= Len(run.writes)]_vars

\* the second commit of a run has failed with EraseFailed
C16_Witness ==
    /\ C16_Reported
    /\ run.status.val.error = 2
    /\ run.result.cause = "FlashEraseFailed"
    /\ Len(run.writes) = 2
    /\ run.n_loads > 24

\* the attempt in progress has ended: it has failed, or the call has returned
AttemptOver == JustFailed \/ Returned

\* what C17 says of the frames of the attempt so far: request frames first,
\* each the request, then poll frames, each [0xFF]; no poll frame before an
\* acknowledgment
C17_Shape ==
    /\ \A i \in 1..Len(sent) :
          \/ sent[i].kind = "request" /\ sent[i].frame = data
          \/ sent[i].kind = "poll" /\ sent[i].frame = << 255 >>
    /\ \A i \in 1..Len(sent) : \A j \in (i + 1)..Len(sent) :
          sent[i].kind = "poll" => sent[j].kind = "poll"
    /\ HasPoll => got_initial_ack /\ lastAck # << >> /\ sent[1].kind = "request"
    /\ pc = "ack" => ~got_initial_ack /\ lastAck = << >>
    /\ pc = "poll" => got_initial_ack /\ Len(sent) > 0

\* what C17 says of the next frame: while no transmission is acknowledged it
\* is the request, and once one is, it is a poll frame
C17_Order ==
    /\ [](C9_Scope => C17_Shape)
    /\ [][(C9_Scope /\ pc \in { "ack", "poll" }) =>
            /\ ~got_initial_ack =>
                  \/ sent' = sent
                  \/ sent' = Append(sent, [kind |-> "request", frame |-> data])
            /\ got_initial_ack =>
                  \/ sent' = sent
                  \/ sent' = Append(sent, [kind |-> "poll", frame |-> << 255 >>])]_vars

\* C17 as stated: in one request attempt the frames handed to the driver are
\* one or more copies of the request frame followed by zero or more poll
\* frames [0xFF], no poll frame being sent before an acknowledgment.
C17_AsStated ==
    C9_Scope =>
        /\ C17_Shape
        /\ AttemptOver => Len(sent) >= 1 /\ sent[1].kind = "request"

\* C17: in one attempt of request, or of request_match_response with a valid
\* match length, the frames handed to the driver are zero or more copies of
\* the request frame (none only when the budget has elapsed before the first
\* transmission, as with a budget of zero; the attempt then fails with
\* NoAckTimeout), all but the last unacknowledged, followed by zero or more
\* poll frames [0xFF]; a poll frame is never sent before the request has been
\* acknowledged, and the request frame is never sent again in that attempt
\* after it has been acknowledged.
C17_FrameOrdering ==
    /\ C17_Order
    /\ []((C9_Scope /\ AttemptOver /\ sent = << >>) =>
            /\ elapsed >= timeout_duration
            /\ lastErr = "NoAckTimeout"
            /\ result.kind # "Ok")

\* three frames in an attempt: the request twice, then a poll
C17_Witness ==
    /\ C9_Scope
    /\ Len(sent) = 3
    /\ sent[1].kind = "request" /\ sent[2].kind = "request" /\ sent[3].kind = "poll"
    /\ Returned /\ result.kind = "Ok"

\* C18: in the poll phase the candidate response is the payload of the most
\* recent acknowledged exchange of the attempt: an exchange that is not
\* acknowledged leaves it unchanged, an acknowledged one replaces it; the
\* response returned on success is that payload, unmodified.
C18_Candidate ==
    /\ [](C9_Scope =>
            /\ pc = "poll" => lastAck = << answer >>
            /\ (JustFailed /\ lastAck # << >>) => lastAck = << answer >>
            /\ (Returned /\ result.kind = "Ok") =>
                  /\ lastAck = << result.val >>
                  /\ result.val = answer)
    /\ [][(C9_Scope /\ pc = "poll" /\ lastAck' = lastAck) => answer' = answer]_vars

\* success after two polls: the candidate of the first acknowledgment did not
\* match, and the payload returned is longer than the request
C18_Witness ==
    /\ C9_Scope
    /\ Returned
    /\ result.kind = "Ok"
    /\ Len(sent) = 3
    /\ sent[2].kind = "poll" /\ sent[3].kind = "poll"
    /\ Len(result.val) > Len(data)

\* the first 3 bytes of r are [0xFF, target, 0x18]
C19_Header(r) ==
    Len(r) >= 3 /\ r[1] = 255 /\ r[2] = args.target /\ r[3] = 24

\* C19 as stated: write_flash resolves on the first candidate response whose
\* first 3 bytes are [0xFF, target, 0x18], whatever the following bytes are,
\* and reports done and error from that response; a reply to another command
\* or target is never accepted.
C19_AsStated ==
    op = "write_flash" =>
        /\ (pc = "poll" /\ C19_Header(answer)) => ~PollLoop
        /\ (Returned /\ lastAck = << answer >> /\ C19_Header(answer)) =>
              result.kind = "Ok"
        /\ (Returned /\ result.kind = "Ok") =>
              /\ C19_Header(result.val)
              /\ lastAck = << result.val >>
              /\ opResult.kind = "Ok"
              /\ opResult.val.done = result.val[4]
              /\ opResult.val.error = result.val[5]

\* C20: the retry loops of request, request_match_response and
\* send_with_timeout never reach the unreachable!() after the loop: no
\* transport call ends by panic, the loop variable never passes 9, and when
\* the tenth attempt has failed the call has returned RetriesExhausted
\* wrapping the error of that attempt.
C20_NoUnreachable ==
    call \in { "request", "match", "send" } =>
        /\ result.kind # "Panic"
        /\ attempt <= 9
        /\ failed = 10 =>
              /\ Returned
              /\ attempt = 9
              /\ result.kind = "Err"
              /\ result.err = "RetriesExhausted"
              /\ result.cause = lastErr
        /\ (Returned /\ result.kind = "Err") => failed = 10

\* request_match_response has hit the ceiling: ten attempts, each ended
\* without a matching response
C20_Witness ==
    /\ call = "match"
    /\ match_length <= Len(data)
    /\ Returned
    /\ failed = 10
    /\ attempt = 9
    /\ result.cause = "ResponseTimeout"

\* an earlier attempt of the present call had its request frame acknowledged:
\* the last failed attempt ended with ResponseTimeout, the error that
\* try_request_match_response returns only after the acknowledgment of the
\* request (bllink.rs:93-125), and the wrapper has begun another attempt
C21_AckedEarlier ==
    /\ failed > 0
    /\ lastErr = "ResponseTimeout"
    /\ pc \in { "ack", "poll" }

\* C21 as stated: within one write_flash call, once a write-flash command
\* frame has been acknowledged by the target, that command frame is never
\* handed to the driver again: a lost or late reply is not remedied by
\* re-issuing the flash commit.
C21_AsStated ==
    (op = "write_flash" /\ C21_AckedEarlier) =>
        \A i \in 1..Len(sent) : sent[i].kind # "request"

\* C22: whenever the transport exchange of read_flash(page, addr) succeeds,
\* the page and the address decoded from the accepted response are the
\* requested ones: read_flash returns success exactly then, with a packet for
\* the requested location, and its page/address mismatch branch is never
\* taken.
C22_RequestedLocation ==
    op = "read_flash" =>
        /\ opResult.err # "StalePacket"
        /\ (Returned /\ result.kind = "Ok") =>
              /\ Len(result.val) >= 7
              /\ result.val[4] + 256 * result.val[5] = args.page
              /\ result.val[6] + 256 * result.val[7] = args.address
              /\ opResult.kind = "Ok"
        /\ (Returned /\ opResult.kind = "Ok") =>
              /\ result.kind = "Ok"
              /\ opResult.val.page = args.page
              /\ opResult.val.address = args.address
              /\ \A i \in 1..Len(opResult.val.data) :
                    opResult.val.data[i] = result.val[7 + i]

\* read_flash(page = 258, addr = 10) has returned two bytes of data from a
\* response accepted at a poll, the candidate before it having been refused
C22_Witness ==
    /\ op = "read_flash"
    /\ Returned
    /\ opResult.kind = "Ok"
    /\ args.page = 258 /\ args.address = 10
    /\ Len(opResult.val.data) = 2
    /\ HasPoll

\* C23: the two matching strategies are one algorithm: for every request,
\* timeout and driver behaviour, request(data) and
\* request_match_response(data, N = length of data) hand the same sequence of
\* frames to the driver and return the same outcome, the same response or a
\* failure at the same point.
C23_OneAlgorithm ==
    pair.pc = "run" =>
        /\ pair.request_match_response.sent = pair.request.sent
        /\ pair.request_match_response.pc = pair.request.pc
        /\ pair.request_match_response.attempt = pair.request.attempt
        /\ pair.request_match_response.answer = pair.request.answer
        /\ pair.request_match_response.lastErr = pair.request.lastErr
        /\ pair.request_match_response.result = pair.request.result
        /\ pair.request.result.kind \in { "None", "Ok", "Err" }

\* both calls have returned the same 4-byte response to a 3-byte request, at
\* the second poll of their second attempt, the first having timed out
C23_Witness ==
    /\ pair.pc = "run"
    /\ Len(pair.data) = 3
    /\ pair.request.pc = "done" /\ pair.request_match_response.pc = "done"
    /\ pair.request.result.kind = "Ok"
    /\ pair.request_match_response.result.kind = "Ok"
    /\ Len(pair.request_match_response.result.val) = 4
    /\ pair.request_match_response.attempt = 1
    /\ pair.request_match_response.lastErr = "ResponseTimeout"
    /\ Len(pair.request_match_response.sent) = 3

\* C24: every frame handed to the radio driver by a bootloader operation is at
\* most 32 bytes long, whatever the arguments: a load_buffer frame is the
\* 3-byte header, 4 bytes of page and address and at most 25 bytes of data, a
\* write_flash frame the header and 6 bytes of fields, a set_address frame the
\* header and the 5 bytes of the address; a load_buffer call with more than
\* 25 bytes of data hands no frame to the driver.
C24_FrameLength ==
    op \in ProtocolOps =>
        /\ \A f \in frames : Len(f) >= 1 /\ Len(f) <= 32
        /\ \A i \in 1..Len(sent) : Len(sent[i].frame) <= 32
        /\ \A f \in frames :
              (Len(f) >= 3 /\ op = "load_buffer") =>
                  Len(f) = 3 + 4 + Len(args.data) /\ Len(args.data) <= 25
        /\ \A f \in frames : (Len(f) >= 3 /\ op = "write_flash") => Len(f) = 3 + 6
        /\ \A f \in frames : (Len(f) >= 3 /\ op = "set_address") => Len(f) = 3 + 5
        /\ (op = "load_buffer" /\ Len(args.data) > 25) => frames = { } /\ sent = << >>

\* load_buffer with 25 bytes of data has handed a frame of 32 bytes to the
\* driver and has returned
C24_Witness ==
    /\ op = "load_buffer"
    /\ Len(args.data) = 25
    /\ Returned
    /\ opResult.kind = "Ok"
    /\ \E f \in frames : Len(f) = 32

====
